---------------------------- MODULE Spec2Model ----------------------------
(***************************************************************************)
(* A model of src/scrape.py: the EfficientNewsScraper ingestion pipeline   *)
(* (scrape -> categorize -> embed -> upsert), its legacy category          *)
(* migration and its search entry point.                                   *)
(*                                                                         *)
(* Python strings are sequences of tokens: a token is a word (an atom the  *)
(* code never looks inside) or one of the characters the code tests for    *)
(* (" ", "_", ",", "[", "]").  Confidences are integers in hundredths      *)
(* (1.0 is 100), classifier scores are integers in thousandths.            *)
(***************************************************************************)
EXTENDS Integers, Sequences, FiniteSets, TLC

VARIABLES
    pc,            \* position of the program
    collection,    \* the "news_articles" collection: rows in insertion order
    inp,           \* the inputs of the operation under way
    out,           \* what the operation returned / what it observed
    site,          \* index of the source scrape_all_websites is at
    all_articles,  \* scrape_all_websites' accumulator
    status,        \* per source: what happened to it in this run
    logs,          \* what was logged at warning/error level, in order
    outfile        \* efficient_articles.json: not written, or its content

vars == <<pc, collection, inp, out, site, all_articles, status, logs, outfile>>

----------------------------------------------------------------------------
(* Bounds of the model. *)

MaxTextLen == 5      \* tokens in a text handed to categorize_article alone

MaxArticles == 5     \* articles in a list handed to process_articles_batch alone

MaxStoreBatch == 2   \* articles in a list handed to store_in_chromadb alone

MaxRecords == 2      \* records of a collection handed to migrate_categories

MaxPasses == 2       \* migrate_categories passes in a row on one collection

NumSites == 2        \* entries of self.websites in a run

MaxContainers == 2   \* containers the container selector matches on a page

MaxSearchRecords == 3  \* articles stored before a search

MaxLimit == 2        \* the limit handed to search_articles

----------------------------------------------------------------------------
(* Strings. *)

Whitespace == {" "}

RECURSIVE LStrip(_)
LStrip(s) ==
    IF s # <<>> /\ Head(s) \in Whitespace THEN LStrip(Tail(s)) ELSE s

RECURSIVE RStrip(_)
RStrip(s) ==
    IF s # <<>> /\ s[Len(s)] \in Whitespace
    THEN RStrip(SubSeq(s, 1, Len(s) - 1))
    ELSE s

\* str.strip()
Strip(s) == RStrip(LStrip(s))

\* len(str.split()): the maximal runs of non-whitespace tokens
SplitLen(s) ==
    Cardinality({i \in 1..Len(s) :
        /\ s[i] \notin Whitespace
        /\ (i = 1 \/ s[i-1] \in Whitespace)})

\* s[:n]
Take(s, n) == SubSeq(s, 1, IF Len(s) < n THEN Len(s) ELSE n)

\* All sequences over S of length at most n.
RECURSIVE SeqsUpTo(_, _)
SeqsUpTo(S, n) ==
    IF n = 0 THEN {<<>>}
    ELSE LET shorter == SeqsUpTo(S, n - 1)
         IN  shorter \cup {Append(s, x) : s \in {t \in shorter : Len(t) = n - 1}, x \in S}

----------------------------------------------------------------------------
(* self.categories and the fallback category. *)

Categories ==
    { <<"politics">>, <<"sports">>, <<"tech">>, <<"business">>,
      <<"entertainment">>, <<"health">>, <<"science">>, <<"world", " ", "news">>,
      <<"environment">>, <<"military">>, <<"crime">>, <<"economy">> }

General == <<"general">>

FullConfidence == 100

----------------------------------------------------------------------------
(* The zero-shot classifier, as categorize_article consumes it: the call   *)
(* raises, or returns labels and scores sorted by descending score, of     *)
(* which the code reads labels[0] and scores[0].  labels are the candidate *)
(* labels handed in (self.categories), scores lie in [0, 1].               *)

ClsLabels == { <<"sports">>, <<"tech">>, <<"world", " ", "news">> }
ClsScores == { 0, 125, 135, 996, 1000 }

ClsRaise == [raises |-> TRUE, label |-> <<>>, score |-> 0]

ClsOutcomes ==
    {ClsRaise} \cup [raises : {FALSE}, label : ClsLabels, score : ClsScores]

\* The score taken as a percentage instead of being rounded.
Round2Percent(p) == p

\* round(float(top_score), 2) on thousandths, giving hundredths (ties to even)
Round2(p) ==
    LET q == p \div 10
        r == p % 10
    IN  IF r < 5 THEN q
        ELSE IF r > 5 THEN q + 1
        ELSE IF q % 2 = 0 THEN q ELSE q + 1

\* The guard of categorize_article's early return.
ShortCircuitLoose(text) == Strip(text) = <<>> \/ SplitLen(text) < 2

ShortCircuit(text) == Strip(text) = <<>> \/ SplitLen(text) < 3

\* categorize_article with what it did: ret is the returned dict, calls the
\* number of classifier invocations, raised whether an exception left it.
CategorizeCallNoCatch(text, outcome) ==
    IF ShortCircuit(text)
    THEN [ret |-> [category |-> General, confidence |-> FullConfidence],
          calls |-> 0, raised |-> FALSE]
    ELSE IF outcome.raises
    THEN [ret |-> [category |-> <<>>, confidence |-> 0],
          calls |-> 1, raised |-> TRUE]
    ELSE [ret |-> [category |-> outcome.label,
                   confidence |-> Round2(outcome.score)],
          calls |-> 1, raised |-> FALSE]

CategorizeCall(text, outcome) ==
    IF ShortCircuit(text)
    THEN [ret |-> [category |-> General, confidence |-> FullConfidence],
          calls |-> 0, raised |-> FALSE]
    ELSE IF outcome.raises
    THEN \* except Exception: warning, fallback
         [ret |-> [category |-> General, confidence |-> FullConfidence],
          calls |-> 1, raised |-> FALSE]
    ELSE [ret |-> [category |-> outcome.label,
                   confidence |-> Round2(outcome.score)],
          calls |-> 1, raised |-> FALSE]

----------------------------------------------------------------------------
(* Specification SpecCat: categorize_article on every text of the bound.   *)

TextTokens == {" ", "w"}

Texts == SeqsUpTo(TextTokens, MaxTextLen)

None == [none |-> TRUE]

InitCat ==
    /\ pc = "cat"
    /\ inp \in [text : Texts, outcome : ClsOutcomes]
    /\ out = None
    /\ collection = <<>>
    /\ site = 0
    /\ all_articles = <<>>
    /\ status = <<>>
    /\ logs = <<>>
    /\ outfile = None

CatApply ==
    /\ pc = "cat"
    /\ out' = CategorizeCall(inp.text, inp.outcome)
    /\ pc' = "cat_done"
    /\ UNCHANGED <<collection, inp, site, all_articles, status, logs, outfile>>

NextCat == CatApply

SpecCat == InitCat /\ [][NextCat]_vars

\* C9: a text that is empty, whitespace-only or has fewer than 3
\* whitespace-delimited tokens is categorized {"general", 1.0} without the
\* classifier being invoked; any other text invokes the classifier exactly once.
FewTokens(text) ==
    \/ \A i \in 1..Len(text) : text[i] = " "
    \/ ~ \E i, j, k \in 1..Len(text) :
          /\ i < j /\ j < k
          /\ text[i] # " " /\ text[j] # " " /\ text[k] # " "
          /\ \E a \in i..j : text[a] = " "
          /\ \E b \in j..k : text[b] = " "

ShortTextShortCircuit ==
    pc = "cat_done" =>
        /\ FewTokens(inp.text) =>
              /\ out.ret = [category |-> General, confidence |-> FullConfidence]
              /\ out.calls = 0
              /\ ~out.raised
        /\ ~FewTokens(inp.text) => out.calls = 1

ShortTextWitness ==
    /\ pc = "cat_done"
    /\ inp.text = <<"w", " ", "w">>
    /\ out.calls = 0

----------------------------------------------------------------------------
(* Article dicts.  A dict is a function from its keys; a key the dict does *)
(* not hold is not in its DOMAIN.                                          *)

SetKey(d, k, v) == [x \in DOMAIN d \cup {k} |-> IF x = k THEN v ELSE d[x]]

DelKey(d, k) == [x \in DOMAIN d \ {k} |-> d[x]]

\* f"{art['headline']} {art['description']}"
ArticleText(art) == art.headline \o <<" ">> \o art.description

batch_size == 4

\* The inner loop of process_articles_batch over one group, from item j on:
\* group holds the group's dicts as mutated so far, acc is
\* categorized_articles.  An exception leaving categorize_article ends the
\* loop in the group's except clause, which extends acc by the whole group.
RECURSIVE BatchGroup(_, _, _, _)
BatchGroup(group, outcomes, j, acc) ==
    IF j > Len(group) THEN acc
    ELSE LET c == CategorizeCall(ArticleText(group[j]), outcomes[j])
         IN  IF c.raised
             THEN acc \o group
             ELSE LET g2 == [group EXCEPT ![j] = SetKey(@, "categories", c.ret)]
                  IN  BatchGroup(g2, outcomes, j + 1, Append(acc, g2[j]))

\* for i in range(0, len(articles), batch_size), from 0-based offset i on.
RECURSIVE BatchLoop(_, _, _, _)
BatchLoop(articles, outcomes, i, acc) ==
    IF i >= Len(articles) THEN acc
    ELSE LET hi == IF i + batch_size < Len(articles)
                   THEN i + batch_size ELSE Len(articles)
         IN  BatchLoop(articles, outcomes, i + batch_size,
                       BatchGroup(SubSeq(articles, i + 1, hi),
                                  SubSeq(outcomes, i + 1, hi), 1, acc))

\* process_articles_batch(articles); outcomes[k] is what the classifier does
\* if it is invoked for articles[k].
ProcessArticlesBatch(articles, outcomes) ==
    IF articles = <<>> THEN <<>>
    ELSE BatchLoop(articles, outcomes, 0, <<>>)

----------------------------------------------------------------------------
(* Specification SpecBatch: process_articles_batch on every list of the    *)
(* bound, under every pattern of classifier results.                       *)

Art(h, d, u) ==
    [headline |-> h, description |-> d, url |-> u, image |-> <<>>,
     source |-> <<"src">>, scraped_at |-> <<"t0">>]

ShortArt == Art(<<"w">>, <<>>, <<"u1">>)
LongArt == Art(<<"w", " ", "w">>, <<"w">>, <<"u2">>)

ClsOk == [raises |-> FALSE, label |-> <<"tech">>, score |-> 996]

BatchItems == [art : {ShortArt, LongArt}, outcome : {ClsRaise, ClsOk}]

InitBatch ==
    /\ pc = "batch"
    /\ \E items \in SeqsUpTo(BatchItems, MaxArticles) :
          inp = [articles |-> [k \in DOMAIN items |-> items[k].art],
                 outcomes |-> [k \in DOMAIN items |-> items[k].outcome]]
    /\ out = None
    /\ collection = <<>>
    /\ site = 0
    /\ all_articles = <<>>
    /\ status = <<>>
    /\ logs = <<>>
    /\ outfile = None

BatchApply ==
    /\ pc = "batch"
    /\ out' = ProcessArticlesBatch(inp.articles, inp.outcomes)
    /\ pc' = "batch_done"
    /\ UNCHANGED <<collection, inp, site, all_articles, status, logs, outfile>>

NextBatch == BatchApply

SpecBatch == InitBatch /\ [][NextBatch]_vars

\* C7: process_articles_batch drops and repeats no article whatever the
\* classifier does: the output holds each input article once, in input order.
BatchKeepsEveryArticle ==
    pc = "batch_done" =>
        /\ Len(out) = Len(inp.articles)
        /\ \A k \in DOMAIN out : DelKey(out[k], "categories") = inp.articles[k]

BatchIsolationWitness ==
    /\ pc = "batch_done"
    /\ Len(inp.articles) > batch_size
    /\ inp.articles[2] = LongArt /\ inp.outcomes[2].raises
    /\ inp.articles[3] = LongArt /\ ~inp.outcomes[3].raises
    /\ Len(out) = Len(inp.articles)

\* C8: every article process_articles_batch returns carries one category of
\* the fixed set or "general" with a confidence in [0, 1], and the one whose
\* classifier call failed carries {"general", 1.0}.
BatchCategoryValid ==
    pc = "batch_done" =>
        \A k \in DOMAIN out :
            /\ "categories" \in DOMAIN out[k]
            /\ out[k].categories.category \in Categories \cup {General}
            /\ out[k].categories.confidence \in 0..FullConfidence
            /\ (k \in DOMAIN inp.outcomes /\ inp.outcomes[k].raises)
                  => out[k].categories =
                        [category |-> General, confidence |-> FullConfidence]

BatchCategoryWitness ==
    /\ pc = "batch_done"
    /\ \E k \in DOMAIN out :
          /\ inp.articles[k] = LongArt /\ inp.outcomes[k].raises
          /\ out[k].categories.category = General
    /\ \E k \in DOMAIN out : out[k].categories.category = <<"tech">>

----------------------------------------------------------------------------
(* Identity, embedding and storage.                                        *)

\* generate_article_id: md5(f"{url}_{headline}").hexdigest().  The digest is
\* taken to be injective on the string it hashes, so the id is that string.
GenerateArticleId(url, headline) == url \o <<"_">> \o headline

EmbeddingDim == 384

\* [0.0] * 384
ZeroVector == [dim |-> EmbeddingDim, zero |-> TRUE, of |-> <<>>]

\* self.embedding_model.encode(text): a vector that is a function of the text
Encode(text) == [dim |-> EmbeddingDim, zero |-> FALSE, of |-> text]

\* generate_embedding without its guard: every text goes to the model.
EmbeddingCallAlways(text) == [ret |-> Encode(text), calls |-> 1]

\* generate_embedding: the vector returned and the number of calls of
\* self.embedding_model.encode made.
EmbeddingCall(text) ==
    IF Strip(text) = <<>> THEN [ret |-> ZeroVector, calls |-> 0]
    ELSE [ret |-> Encode(text), calls |-> 1]

GenerateEmbedding(text) == EmbeddingCall(text).ret

DescCap == 500
ImageCap == 200

\* dict.get(k, default)
GetKey(d, k, default) == IF k \in DOMAIN d THEN d[k] ELSE default

\* The (id, embedding, document, metadata) store_in_chromadb builds for one
\* article.
StoreRow(article) ==
    LET doc_text == article.headline \o <<" ">> \o article.description
    IN  [id |-> GenerateArticleId(article.url, article.headline),
         embedding |-> GenerateEmbedding(doc_text),
         document |-> doc_text,
         metadata |->
            [headline |-> article.headline,
             description |-> Take(article.description, DescCap),
             url |-> article.url,
             image |-> Take(GetKey(article, "image", <<>>), ImageCap),
             source |-> article.source,
             scraped_at |-> article.scraped_at,
             categories |->
                GetKey(GetKey(article, "categories", [x \in {} |-> <<>>]),
                       "category", General),
             text_length |-> Len(doc_text)]]

StoreRows(articles) == [k \in DOMAIN articles |-> StoreRow(articles[k])]

HasId(coll, id) == \E k \in DOMAIN coll : coll[k].id = id

\* collection.add: a row whose id the collection holds is left as it is.
RECURSIVE UpsertAsAdd(_, _)
UpsertAsAdd(coll, rows) ==
    IF rows = <<>> THEN coll
    ELSE UpsertAsAdd(IF HasId(coll, Head(rows).id) THEN coll
                     ELSE Append(coll, Head(rows)),
                     Tail(rows))

\* collection.upsert, when it succeeds: row by row, a row whose id the
\* collection holds replaces the row held (vector, document and metadata),
\* any other row is inserted.  (Every row store_in_chromadb writes holds the
\* same eight metadata keys, so replacing the metadata held and writing the
\* new keys over it give the same record.)
RECURSIVE Upsert(_, _)
Upsert(coll, rows) ==
    IF rows = <<>> THEN coll
    ELSE LET r == Head(rows)
         IN  Upsert(IF HasId(coll, r.id)
                    THEN [k \in DOMAIN coll |->
                             IF coll[k].id = r.id THEN r ELSE coll[k]]
                    ELSE Append(coll, r),
                    Tail(rows))

\* store_in_chromadb with the upsert call wrapped in a try that logs.
StoreInChromadbSwallow(coll, articles, upsertOk) ==
    IF articles = <<>> THEN [collection |-> coll, raised |-> FALSE, upserts |-> 0]
    ELSE IF upsertOk
    THEN [collection |-> Upsert(coll, StoreRows(articles)),
          raised |-> FALSE, upserts |-> 1]
    ELSE [collection |-> coll, raised |-> FALSE, upserts |-> 1]

\* store_in_chromadb(articles) on collection coll; upsertOk tells whether the
\* store's upsert call succeeds.  Nothing in store_in_chromadb catches.
StoreInChromadb(coll, articles, upsertOk) ==
    IF articles = <<>> THEN [collection |-> coll, raised |-> FALSE, upserts |-> 0]
    ELSE IF upsertOk
    THEN [collection |-> Upsert(coll, StoreRows(articles)),
          raised |-> FALSE, upserts |-> 1]
    ELSE [collection |-> coll, raised |-> TRUE, upserts |-> 1]

----------------------------------------------------------------------------
(* Specification SpecStore: store_in_chromadb called again and again on    *)
(* one collection, with articles whose urls and headlines may hold "_".    *)

\* Two versions of the article at (url, headline), differing in every other
\* field.
ArtV1(u, h) ==
    [headline |-> h, description |-> <<"d1">>, url |-> u, image |-> <<"i1">>,
     source |-> <<"s1">>, scraped_at |-> <<"t1">>,
     categories |-> [category |-> <<"tech">>, confidence |-> 90]]

ArtV2(u, h) ==
    [headline |-> h, description |-> <<>>, url |-> u, image |-> <<>>,
     source |-> <<"s2">>, scraped_at |-> <<"t2">>]

StoreArticles ==
    { ArtV1(<<"u">>, <<"h">>), ArtV2(<<"u">>, <<"h">>),
      ArtV1(<<"u">>, <<"h", "_", "h">>), ArtV1(<<"u", "_", "h">>, <<"h">>) }

InitStore ==
    /\ pc = "store"
    /\ collection = <<>>
    /\ inp = None
    /\ out = None
    /\ site = 0
    /\ all_articles = <<>>
    /\ status = <<>>
    /\ logs = <<>>
    /\ outfile = None

\* One call of store_in_chromadb; out keeps the collection as it was before
\* the call and whether the call raised.
StoreApply ==
    /\ pc \in {"store", "stored"}
    /\ \E articles \in SeqsUpTo(StoreArticles, MaxStoreBatch), ok \in BOOLEAN :
          LET r == StoreInChromadb(collection, articles, ok)
          IN  /\ collection' = r.collection
              /\ inp' = [articles |-> articles, upsertOk |-> ok]
              /\ out' = [before |-> collection, raised |-> r.raised]
    /\ pc' = "stored"
    /\ UNCHANGED <<site, all_articles, status, logs, outfile>>

NextStore == StoreApply

SpecStore == InitStore /\ [][NextStore]_vars

RowsWithId(coll, id) == {k \in DOMAIN coll : coll[k].id = id}

\* C1: after store_in_chromadb has stored an article, whatever was stored
\* before, the collection holds exactly one record under the article's id,
\* and its vector, document text and every metadata field are those of the
\* article just stored.
UpsertIdempotent ==
    (pc = "stored" /\ ~out.raised) =>
        \A k \in DOMAIN inp.articles :
            LET a == inp.articles[k]
                id == GenerateArticleId(a.url, a.headline)
                doc == a.headline \o <<" ">> \o a.description
            IN  /\ Cardinality(RowsWithId(collection, id)) = 1
                /\ (\A j \in DOMAIN inp.articles :
                       GenerateArticleId(inp.articles[j].url,
                                         inp.articles[j].headline) = id => j <= k)
                      => \A r \in RowsWithId(collection, id) :
                            /\ collection[r].document = doc
                            /\ collection[r].embedding = GenerateEmbedding(doc)
                            /\ collection[r].metadata.headline = a.headline
                            /\ collection[r].metadata.description
                                  = Take(a.description, DescCap)
                            /\ collection[r].metadata.url = a.url
                            /\ collection[r].metadata.image = Take(a.image, ImageCap)
                            /\ collection[r].metadata.source = a.source
                            /\ collection[r].metadata.scraped_at = a.scraped_at
                            /\ collection[r].metadata.categories =
                                  (IF "categories" \in DOMAIN a
                                   THEN a.categories.category ELSE General)
                            /\ collection[r].metadata.text_length = Len(doc)

\* The same (url, headline) stored a second time with every other field
\* changed, and once more unchanged.
UpsertWitness ==
    /\ pc = "stored" /\ ~out.raised
    /\ inp.articles = <<ArtV2(<<"u">>, <<"h">>)>>
    /\ \E k \in DOMAIN out.before :
          /\ out.before[k].id = <<"u", "_", "h">>
          /\ out.before[k].metadata.description = <<"d1">>
    /\ Len(collection) = Len(out.before)
\* C10: two articles whose (url, headline) pairs differ get different ids,
\* so storing one never overwrites the record of the other: a record held
\* before the call, of a (url, headline) that is not among the articles
\* stored, is still held after it.
DistinctArticlesKeepSeparateRecords ==
    (pc = "stored" /\ ~out.raised) =>
        \A k \in DOMAIN out.before :
            LET r == out.before[k]
            IN  (\A j \in DOMAIN inp.articles :
                    \/ inp.articles[j].url # r.metadata.url
                    \/ inp.articles[j].headline # r.metadata.headline)
                  => \E m \in DOMAIN collection : collection[m] = r

----------------------------------------------------------------------------
(* Specification SpecEmb: generate_embedding on every text of the bound.   *)

InitEmb ==
    /\ pc = "embed"
    /\ inp \in [text : Texts]
    /\ out = None
    /\ collection = <<>>
    /\ site = 0
    /\ all_articles = <<>>
    /\ status = <<>>
    /\ logs = <<>>
    /\ outfile = None

EmbApply ==
    /\ pc = "embed"
    /\ out' = EmbeddingCall(inp.text)
    /\ pc' = "embedded"
    /\ UNCHANGED <<collection, inp, site, all_articles, status, logs, outfile>>

NextEmb == EmbApply

SpecEmb == InitEmb /\ [][NextEmb]_vars

\* C15: for an empty or whitespace-only text generate_embedding returns the
\* all-zero vector of dimension 384 without invoking the embedding model; for
\* any other text it invokes the model exactly once and returns its vector.
ZeroVectorFallback ==
    pc = "embedded" =>
        IF \A i \in DOMAIN inp.text : inp.text[i] = " "
        THEN /\ out.calls = 0
             /\ out.ret.zero
             /\ out.ret.dim = EmbeddingDim
        ELSE /\ out.calls = 1
             /\ out.ret = Encode(inp.text)

ZeroVectorWitness ==
    /\ pc = "embedded"
    /\ inp.text = <<" ", " ">>
    /\ out.ret = ZeroVector
    /\ out.calls = 0

----------------------------------------------------------------------------
(* migrate_categories.                                                     *)
(*                                                                         *)
(* A JSON text is the token "[", elements separated by "," tokens, and the *)
(* token "]".  An element is one token: an object with a "category" key    *)
(* (and a score), an object without one, or a JSON string.                 *)

NotAString == <<"<int>">>     \* a metadata value that is not a str

IsString(v) == v # NotAString

JsonElems == {"{tech}", "{sports}", "{sports,tech}", "{5}", "{}", "\"tech\""}

\* element["category"]: the value, or the exception it raises
ElemCategory(e) ==
    CASE e = "{tech}" -> [raised |-> FALSE, val |-> <<"tech">>]
      [] e = "{sports}" -> [raised |-> FALSE, val |-> <<"sports">>]
      [] e = "{sports,tech}" ->
            [raised |-> FALSE, val |-> <<"sports", ",", "tech">>]
      [] e = "{5}" -> [raised |-> FALSE, val |-> NotAString]
      [] OTHER -> [raised |-> TRUE, val |-> <<>>]    \* KeyError, TypeError

\* json.loads of a text that starts with "[": the list, or the exception
JsonLoads(s) ==
    LET n == Len(s)
        body == SubSeq(s, 2, n - 1)
    IN  IF n >= 2 /\ s[1] = "[" /\ s[n] = "]"
           /\ (body = <<>>
               \/ /\ Len(body) % 2 = 1
                  /\ \A i \in DOMAIN body :
                        IF i % 2 = 1 THEN body[i] \in JsonElems
                        ELSE body[i] = ",")
        THEN [raised |-> FALSE,
              list |-> [i \in 1..((Len(body) + 1) \div 2) |-> body[2 * i - 1]]]
        ELSE [raised |-> TRUE, list |-> <<>>]

\* The whole string in place of its first segment.
WholeString(s) == s

\* categories.split(",")[0]
RECURSIVE FirstSegment(_)
FirstSegment(s) ==
    IF s = <<>> \/ Head(s) = "," THEN <<>>
    ELSE <<Head(s)>> \o FirstSegment(Tail(s))

HasComma(s) == \E i \in DOMAIN s : s[i] = ","

\* The loop body with an except clause that keeps the metadata as read.
MigrateMetadataKeepOnError(metadata) ==
    LET categories == GetKey(metadata, "categories", <<>>)
        general == [md |-> SetKey(metadata, "categories", General),
                    failed |-> FALSE]
        failure == [md |-> metadata, failed |-> TRUE]
    IN  IF ~IsString(categories) THEN failure
        ELSE IF categories # <<>> /\ Head(categories) = "["
        THEN LET parsed == JsonLoads(categories)
             IN  IF parsed.raised THEN failure
                 ELSE IF parsed.list # <<>>
                 THEN LET c == ElemCategory(parsed.list[1])
                      IN  IF c.raised THEN failure
                          ELSE [md |-> SetKey(metadata, "categories", c.val),
                                failed |-> FALSE]
                 ELSE general
        ELSE IF HasComma(categories)
        THEN [md |-> SetKey(metadata, "categories", FirstSegment(categories)),
              failed |-> FALSE]
        ELSE IF categories = <<>> THEN general
        ELSE [md |-> metadata, failed |-> FALSE]

\* The body of migrate_categories' loop for one metadata dict: the dict as
\* the loop leaves it, and whether the except clause ran.
MigrateMetadata(metadata) ==
    LET categories == GetKey(metadata, "categories", <<>>)
        general == [md |-> SetKey(metadata, "categories", General),
                    failed |-> FALSE]
        failure == [md |-> SetKey(metadata, "categories", General),
                    failed |-> TRUE]
    IN  IF ~IsString(categories) THEN failure          \* no startswith
        ELSE IF categories # <<>> /\ Head(categories) = "["
        THEN LET parsed == JsonLoads(categories)
             IN  IF parsed.raised THEN failure
                 ELSE IF parsed.list # <<>>
                 THEN LET c == ElemCategory(parsed.list[1])
                      IN  IF c.raised THEN failure
                          ELSE [md |-> SetKey(metadata, "categories", c.val),
                                failed |-> FALSE]
                 ELSE general
        ELSE IF HasComma(categories)
        THEN [md |-> SetKey(metadata, "categories", FirstSegment(categories)),
              failed |-> FALSE]
        ELSE IF categories = <<>> THEN general
        ELSE [md |-> metadata, failed |-> FALSE]

\* collection.update(ids, metadatas), when it succeeds: the keys of
\* metadatas[i] are written into the metadata of the record with ids[i].
UpdateMetadatas(coll, ids, metadatas) ==
    [k \in DOMAIN coll |->
        IF \E i \in DOMAIN ids : ids[i] = coll[k].id
        THEN LET i == CHOOSE i \in DOMAIN ids : ids[i] = coll[k].id
                 old == coll[k].metadata
                 new == metadatas[i]
             IN  [coll[k] EXCEPT !.metadata =
                    [x \in DOMAIN old \cup DOMAIN new |->
                        IF x \in DOMAIN new THEN new[x] ELSE old[x]]]
        ELSE coll[k]]

\* migrate_categories with the update left out when no metadata was rewritten.
MigrateCategoriesSkipUnchanged(coll, updateOk) ==
    LET ids == [k \in DOMAIN coll |-> coll[k].id]
        updated_metadatas ==
            [k \in DOMAIN coll |-> MigrateMetadata(coll[k].metadata).md]
        failed == {k \in DOMAIN coll : MigrateMetadata(coll[k].metadata).failed}
        same == \A k \in DOMAIN coll : updated_metadatas[k] = coll[k].metadata
    IN  IF same
        THEN [collection |-> coll, raised |-> FALSE, updates |-> 0,
              update |-> [ids |-> <<>>, metadatas |-> <<>>], failed |-> failed]
        ELSE IF updateOk
        THEN [collection |-> UpdateMetadatas(coll, ids, updated_metadatas),
              raised |-> FALSE, updates |-> 1,
              update |-> [ids |-> ids, metadatas |-> updated_metadatas],
              failed |-> failed]
        ELSE [collection |-> coll, raised |-> TRUE, updates |-> 1,
              update |-> [ids |-> ids, metadatas |-> updated_metadatas],
              failed |-> failed]

\* The metadatas of ms at the positions of keep, in order.
RECURSIVE KeepOnly(_, _, _)
KeepOnly(ms, keep, k) ==
    IF k > Len(ms) THEN <<>>
    ELSE (IF k \in keep THEN <<ms[k]>> ELSE <<>>) \o KeepOnly(ms, keep, k + 1)

\* migrate_categories with an except clause that appends nothing: the
\* metadata list misses the records that hit the error path, and the store
\* refuses an update whose lists differ in length.
MigrateCategoriesDropFailed(coll, updateOk) ==
    LET ids == [k \in DOMAIN coll |-> coll[k].id]
        failed == {k \in DOMAIN coll : MigrateMetadata(coll[k].metadata).failed}
        updated_metadatas ==
            KeepOnly([k \in DOMAIN coll |-> MigrateMetadata(coll[k].metadata).md],
                     DOMAIN coll \ failed, 1)
    IN  IF updated_metadatas = <<>>
        THEN [collection |-> coll, raised |-> FALSE, updates |-> 0,
              update |-> [ids |-> <<>>, metadatas |-> <<>>], failed |-> failed]
        ELSE IF updateOk /\ failed = {}
        THEN [collection |-> UpdateMetadatas(coll, ids, updated_metadatas),
              raised |-> FALSE, updates |-> 1,
              update |-> [ids |-> ids, metadatas |-> updated_metadatas],
              failed |-> failed]
        ELSE [collection |-> coll, raised |-> TRUE, updates |-> 1,
              update |-> [ids |-> ids, metadatas |-> updated_metadatas],
              failed |-> failed]

\* migrate_categories on collection coll; updateOk tells whether the store's
\* update call succeeds.  update is the call made (its ids and metadatas),
\* updates the number of update calls.
MigrateCategories(coll, updateOk) ==
    LET ids == [k \in DOMAIN coll |-> coll[k].id]
        updated_metadatas ==
            [k \in DOMAIN coll |-> MigrateMetadata(coll[k].metadata).md]
        failed == {k \in DOMAIN coll : MigrateMetadata(coll[k].metadata).failed}
    IN  IF updated_metadatas = <<>>
        THEN [collection |-> coll, raised |-> FALSE, updates |-> 0,
              update |-> [ids |-> <<>>, metadatas |-> <<>>], failed |-> failed]
        ELSE IF updateOk
        THEN [collection |-> UpdateMetadatas(coll, ids, updated_metadatas),
              raised |-> FALSE, updates |-> 1,
              update |-> [ids |-> ids, metadatas |-> updated_metadatas],
              failed |-> failed]
        ELSE [collection |-> coll, raised |-> TRUE, updates |-> 1,
              update |-> [ids |-> ids, metadatas |-> updated_metadatas],
              failed |-> failed]

----------------------------------------------------------------------------
(* Specification SpecMig: migrate_categories, pass after pass, on a        *)
(* collection whose records hold legacy category encodings.                *)

LegacyValues ==
    { <<"tech">>, <<"sports">>, General, <<>>,
      <<"sports", ",", "tech">>, <<",", "tech">>,
      <<"[", "]">>, <<"[", "{tech}", "]">>,
      <<"[", "{sports}", ",", "{tech}", "]">>,
      <<"[", "{sports,tech}", "]">>, <<"[", "{5}", "]">>,
      <<"[", "{}", "]">>, <<"[", "\"tech\"", "]">>, <<"[", "{tech}">>,
      NotAString }

LegacyMetadata ==
    {[headline |-> <<"h">>, url |-> <<"u">>]}
        \cup {[headline |-> <<"h">>, url |-> <<"u">>, categories |-> v] :
                 v \in LegacyValues}

RecordIds == <<"id1", "id2", "id3", "id4">>

RecordHeadlines == <<"h1", "h2", "h3", "h4">>

\* The k-th record of the collection: its own id, headline and document, and
\* the metadata md otherwise.
LegacyRow(k, md) ==
    [id |-> <<RecordIds[k]>>, embedding |-> Encode(<<RecordHeadlines[k]>>),
     document |-> <<RecordHeadlines[k]>>,
     metadata |-> SetKey(md, "headline", <<RecordHeadlines[k]>>)]

InitMig ==
    /\ pc = "migrate"
    /\ \E mds \in SeqsUpTo(LegacyMetadata, MaxRecords) :
          collection = [k \in DOMAIN mds |-> LegacyRow(k, mds[k])]
    /\ inp = None
    /\ out = None
    /\ site = 0
    /\ all_articles = <<>>
    /\ status = 0
    /\ logs = <<>>
    /\ outfile = None

\* One pass of migrate_categories; site counts the passes, status those that
\* completed, out keeps the collection as it was before the pass and what the
\* pass did.
Migrate ==
    /\ pc \in {"migrate", "migrated"}
    /\ site < MaxPasses
    /\ \E ok \in BOOLEAN :
          LET r == MigrateCategories(collection, ok)
          IN  /\ collection' = r.collection
              /\ inp' = [updateOk |-> ok]
              /\ out' = [before |-> collection, raised |-> r.raised,
                         updates |-> r.updates, update |-> r.update,
                         failed |-> r.failed]
              /\ status' = IF r.raised THEN status ELSE status + 1
    /\ pc' = "migrated"
    /\ site' = site + 1
    /\ UNCHANGED <<all_articles, logs, outfile>>

NextMig == Migrate

SpecMig == InitMig /\ [][NextMig]_vars

\* C4: once migrate_categories has completed, every record's category is one
\* scalar string of the fixed category set or "general": it is a string, is
\* not empty, is no JSON text and holds no comma.
CategoryScalarAfterMigration ==
    status >= 1 =>
        \A k \in DOMAIN collection :
            LET md == collection[k].metadata
            IN  /\ "categories" \in DOMAIN md
                /\ IsString(md.categories)
                /\ md.categories # <<>>
                /\ Head(md.categories) # "["
                /\ ~HasComma(md.categories)
                /\ md.categories \in Categories \cup {General}

\* C5: a pass of migrate_categories over a collection an earlier pass has
\* migrated changes no record.
MigrationIdempotent ==
    (pc = "migrated" /\ status >= 2 /\ ~out.raised) => collection = out.before

\* The legacy values whose processing raises: a JSON text that does not
\* parse, a first element without a category key or that is no object, and a
\* value that is not a string.
ErrorValues ==
    { <<"[", "{}", "]">>, <<"[", "\"tech\"", "]">>, <<"[", "{tech}">>,
      NotAString }

\* The mapping of the legacy encodings, value by value.
MappedCategory(v) ==
    CASE v = <<"[", "{tech}", "]">> -> <<"tech">>
      [] v = <<"[", "{sports}", ",", "{tech}", "]">> -> <<"sports">>
      [] v = <<"[", "{sports,tech}", "]">> -> <<"sports", ",", "tech">>
      [] v = <<"[", "{5}", "]">> -> NotAString
      [] v = <<"[", "]">> -> General
      [] v = <<"sports", ",", "tech">> -> <<"sports">>
      [] v = <<",", "tech">> -> <<>>
      [] v = <<>> -> General
      [] OTHER -> v

\* The category a record held before the pass (out.before), and whether it
\* held one.
HadCategory(k) == "categories" \in DOMAIN out.before[k].metadata

CategoryBefore(k) == out.before[k].metadata.categories

PassWritten == pc = "migrated" /\ ~out.raised

\* C11: a pass of migrate_categories that wrote its update maps, record by
\* record, a JSON array of {category, ...} objects to the first element's
\* category ("general" for the empty array), a comma-separated string to its
\* first segment, an empty or missing value to "general", and leaves any
\* other string as it was.
MigrationMapping ==
    PassWritten =>
        \A k \in DOMAIN out.before :
            IF ~HadCategory(k)
            THEN collection[k].metadata.categories = General
            ELSE CategoryBefore(k) \notin ErrorValues
                    => collection[k].metadata.categories
                          = MappedCategory(CategoryBefore(k))

MigrationMappingWitness ==
    /\ PassWritten
    /\ \E k \in DOMAIN out.before :
          /\ HadCategory(k)
          /\ CategoryBefore(k) = <<"[", "{tech}", "]">>
          /\ collection[k].metadata.categories = <<"tech">>
    /\ \E k \in DOMAIN out.before :
          /\ HadCategory(k)
          /\ CategoryBefore(k) = <<"sports", ",", "tech">>
          /\ collection[k].metadata.categories = <<"sports">>

\* C12: processing a record's metadata that raises makes the pass neither
\* raise nor stop: the record's category becomes "general", every other
\* record is migrated as the mapping says, and the one update carries every
\* record.  Only a failing update call makes the pass raise.
MigrationRecoversPerRecord ==
    pc = "migrated" =>
        /\ out.raised => ~inp.updateOk
        /\ \A k \in DOMAIN out.before :
              k \in out.failed
                 <=> (HadCategory(k) /\ CategoryBefore(k) \in ErrorValues)
        /\ out.before # <<>> =>
              /\ out.updates = 1
              /\ Len(out.update.ids) = Len(out.before)
        /\ ~out.raised =>
              \A k \in DOMAIN out.before :
                 collection[k].metadata.categories =
                    IF ~HadCategory(k) \/ k \in out.failed THEN General
                    ELSE MappedCategory(CategoryBefore(k))

MigrationRecoveryWitness ==
    /\ PassWritten
    /\ \E k \in out.failed :
          /\ CategoryBefore(k) = <<"[", "{tech}">>
          /\ collection[k].metadata.categories = General
    /\ \E k \in DOMAIN out.before \ out.failed :
          /\ HadCategory(k)
          /\ CategoryBefore(k) = <<"sports", ",", "tech">>
          /\ collection[k].metadata.categories = <<"sports">>

\* A metadata whose category is already a scalar of the fixed set or
\* "general".
ValidScalar(md) ==
    "categories" \in DOMAIN md /\ md.categories \in Categories \cup {General}

\* C16 as claimed: the update of a pass carries only the records the pass
\* touched, no record whose category was already a valid scalar; a pass makes
\* at most one update call, and none when nothing needed changing.
MigrationWritesOnlyTouched ==
    pc = "migrated" =>
        /\ out.updates <= 1
        /\ \A i \in DOMAIN out.update.ids :
              \A k \in DOMAIN out.before :
                 out.before[k].id = out.update.ids[i]
                    => ~ValidScalar(out.before[k].metadata)
        /\ (\A k \in DOMAIN out.before : ValidScalar(out.before[k].metadata))
              => out.updates = 0

\* C16 as amended: a pass makes at most one update call, exactly one when the
\* collection holds a record and none when it is empty; the update carries
\* every record of the collection in the order read, a record whose category
\* was already a valid scalar with its metadata as read, so that the update
\* leaves such a record as it was.
MigrationWritesEveryRecordOnce ==
    pc = "migrated" =>
        /\ out.updates <= 1
        /\ out.updates = 1 <=> out.before # <<>>
        /\ out.update.ids = [k \in DOMAIN out.before |-> out.before[k].id]
        /\ \A k \in DOMAIN out.before :
              ValidScalar(out.before[k].metadata) =>
                 /\ out.update.metadatas[k] = out.before[k].metadata
                 /\ collection[k] = out.before[k]

MigrationWritesWitness ==
    /\ PassWritten
    /\ out.updates = 1
    /\ \E k \in DOMAIN out.before :
          /\ ValidScalar(out.before[k].metadata)
          /\ \E i \in DOMAIN out.update.ids :
                out.update.ids[i] = out.before[k].id
    /\ \E k \in DOMAIN out.before : collection[k] # out.before[k]

\* The fields of metadata dict a that dict b holds with the same value, the
\* category aside.
SameButCategory(a, b) ==
    /\ DOMAIN a \ {"categories"} = DOMAIN b \ {"categories"}
    /\ \A x \in DOMAIN a \ {"categories"} : a[x] = b[x]

\* C19: the id list and the metadata list of the update have the same
\* length, and the i-th metadata is that of the record with the i-th id, its
\* category rewritten or not, whichever records hit the error path; a pass
\* changes no metadata field but the category, and no id, vector or document.
MigrationKeepsAlignment ==
    pc = "migrated" =>
        /\ Len(out.update.ids) = Len(out.update.metadatas)
        /\ \A i \in DOMAIN out.update.ids :
              /\ i \in DOMAIN out.update.metadatas
              /\ \E k \in DOMAIN out.before :
                    /\ out.before[k].id = out.update.ids[i]
                    /\ SameButCategory(out.update.metadatas[i],
                                       out.before[k].metadata)
                    /\ "categories" \in DOMAIN out.update.metadatas[i]
        /\ Len(collection) = Len(out.before)
        /\ \A k \in DOMAIN out.before :
              /\ collection[k].id = out.before[k].id
              /\ collection[k].embedding = out.before[k].embedding
              /\ collection[k].document = out.before[k].document
              /\ SameButCategory(collection[k].metadata, out.before[k].metadata)

MigrationAlignmentWitness ==
    /\ PassWritten
    /\ Len(out.update.ids) >= 2
    /\ 1 \in out.failed
    /\ 2 \notin out.failed
    /\ collection[2].metadata.categories # General
    /\ collection[2].metadata # out.before[2].metadata

----------------------------------------------------------------------------
(* scrape_website.                                                         *)
(*                                                                         *)
(* What the page loader gives for a source: it raises (launch, goto,       *)
(* timeout), or the page's containers in page order.  A container is a     *)
(* dict of the texts and attributes its selectors find; an element that is *)
(* not there is a key the dict does not hold.  raises tells whether        *)
(* processing the container raises.                                        *)

NoHeadline == <<"No", " ", "headline">>

\* datetime.now().isoformat()
Now == <<"t0">>

Absolute == {"https://", "http://"}

\* urljoin(url, href), for an absolute href and for a path relative to url
UrlJoin(url, href) ==
    IF Head(href) \in Absolute THEN href ELSE url \o <<"/">> \o href

\* The loop body without the test of line 182: every container that does not
\* raise is emitted.
ExtractItemNoFilter(items, container, url, now) ==
    IF container.raises THEN items
    ELSE Append(items,
                [headline |-> IF "headline" \in DOMAIN container
                              THEN Strip(container.headline) ELSE NoHeadline,
                 description |-> <<>>,
                 url |-> IF "href" \in DOMAIN container /\ container.href # <<>>
                         THEN UrlJoin(url, container.href) ELSE <<>>,
                 image |-> <<>>, source |-> url, scraped_at |-> now])

\* The loop body of scrape_website for one container: the items list after it.
ExtractItem(items, container, url, now) ==
    IF container.raises THEN items           \* except Exception: continue
    ELSE LET headline == IF "headline" \in DOMAIN container
                         THEN Strip(container.headline) ELSE NoHeadline
             description == IF "description" \in DOMAIN container
                            THEN Strip(container.description) ELSE <<>>
             link == IF "href" \in DOMAIN container /\ container.href # <<>>
                     THEN UrlJoin(url, container.href) ELSE <<>>
             img_src == IF "src" \in DOMAIN container /\ container.src # <<>>
                        THEN container.src
                        ELSE GetKey(container, "data_src", <<>>)
             img == IF img_src # <<>> THEN UrlJoin(url, img_src) ELSE <<>>
         IN  IF headline # <<>> /\ link # <<>> /\ headline # NoHeadline
             THEN Append(items,
                         [headline |-> headline, description |-> description,
                          url |-> link, image |-> img, source |-> url,
                          scraped_at |-> now])
             ELSE items

RECURSIVE ExtractItems(_, _, _, _)
ExtractItems(items, containers, url, now) ==
    IF containers = <<>> THEN items
    ELSE ExtractItems(ExtractItem(items, Head(containers), url, now),
                      Tail(containers), url, now)

\* scrape_website(url, selectors, limit): the items returned and what was
\* logged at warning or error level.
ScrapeWebsite(fetch, url, limit, now) ==
    IF fetch.raises
    THEN [items |-> <<>>, log |-> <<[level |-> "error", what |-> "scraping"]>>]
    ELSE LET items == ExtractItems(<<>>, Take(fetch.containers, limit), url, now)
         IN  [items |-> items,
              log |-> IF items = <<>>
                      THEN <<[level |-> "warning", what |-> "no valid articles"]>>
                      ELSE <<>>]

----------------------------------------------------------------------------
(* Specification SpecScrape: scrape_website on every page of the bound.    *)

\* The containers a page is made of: two valid ones (one with an image given
\* by data-src), one without headline element, one whose headline is blank,
\* one whose headline is the placeholder text, one without link, one with an
\* empty href, and one whose processing raises.
PageContainers ==
    { [raises |-> FALSE, headline |-> <<" ", "w", " ", "w">>,
       description |-> <<"d">>, href |-> <<"a">>],
      [raises |-> FALSE, headline |-> <<"x">>,
       href |-> <<"https://", "other", "/", "b">>, src |-> <<>>,
       data_src |-> <<"i">>],
      [raises |-> FALSE, description |-> <<"d">>, href |-> <<"c">>],
      [raises |-> FALSE, headline |-> <<" ">>, href |-> <<"e">>],
      [raises |-> FALSE, headline |-> NoHeadline, href |-> <<"f">>],
      [raises |-> FALSE, headline |-> <<"y">>],
      [raises |-> FALSE, headline |-> <<"z">>, href |-> <<>>],
      [raises |-> TRUE] }

Pages ==
    {[raises |-> TRUE, containers |-> <<>>]}
        \cup [raises : {FALSE}, containers : SeqsUpTo(PageContainers, MaxContainers)]

PageUrl == <<"https://", "site">>

InitScrape ==
    /\ pc = "scrape_site"
    /\ inp \in [fetch : Pages, limit : 1..MaxContainers]
    /\ out = None
    /\ collection = <<>>
    /\ site = 0
    /\ all_articles = <<>>
    /\ status = <<>>
    /\ logs = <<>>
    /\ outfile = None

ScrapeApply ==
    /\ pc = "scrape_site"
    /\ out' = ScrapeWebsite(inp.fetch, PageUrl, inp.limit, Now)
    /\ pc' = "scraped"
    /\ UNCHANGED <<collection, inp, site, all_articles, status, logs, outfile>>

NextScrape == ScrapeApply

SpecScrape == InitScrape /\ [][NextScrape]_vars

\* A container that has a headline with text other than the placeholder, and
\* a link, and whose processing does not raise.
ValidContainer(c) ==
    /\ ~c.raises
    /\ "headline" \in DOMAIN c
    /\ \E i \in DOMAIN c.headline : c.headline[i] # " "
    /\ c.headline # NoHeadline
    /\ "href" \in DOMAIN c
    /\ c.href # <<>>

\* C14: every article scrape_website emits has a non-empty headline that is
\* not the placeholder and a non-empty resolved url; the articles emitted
\* are those of the valid containers among the first limit containers of the
\* page, in page order, at most limit of them: a candidate without headline
\* or link, and a container whose processing raises, is left out without
\* anything raised or logged as an error, and the others are emitted.
NormalizedItems ==
    (pc = "scraped" /\ ~inp.fetch.raises) =>
        LET valid == SelectSeq(Take(inp.fetch.containers, inp.limit),
                               ValidContainer)
        IN  /\ \A i \in DOMAIN out.items :
                  /\ out.items[i].headline # <<>>
                  /\ out.items[i].headline # NoHeadline
                  /\ out.items[i].url # <<>>
            /\ Len(out.items) <= inp.limit
            /\ Len(out.items) = Len(valid)
            /\ \A i \in DOMAIN out.items :
                  /\ i \in DOMAIN valid
                  /\ out.items[i].headline = Strip(valid[i].headline)
                  /\ Len(valid[i].href) <= Len(out.items[i].url)
                  /\ SubSeq(out.items[i].url,
                            Len(out.items[i].url) - Len(valid[i].href) + 1,
                            Len(out.items[i].url)) = valid[i].href
            /\ \A k \in DOMAIN out.log : out.log[k].level # "error"

NormalizedWitness ==
    /\ pc = "scraped"
    /\ Len(inp.fetch.containers) = 2
    /\ inp.fetch.containers[1].raises
    /\ ValidContainer(inp.fetch.containers[2])
    /\ inp.limit = 2
    /\ Len(out.items) = 1

----------------------------------------------------------------------------
(* search_articles.                                                        *)

Tokens(s) == {s[i] : i \in DOMAIN s}

\* The cosine distance of two vectors, in hundredths: 1.0 from or to the zero
\* vector, otherwise the smaller the more the encoded texts share.
Distance(q, v) ==
    IF q.zero \/ v.zero THEN 100
    ELSE 100 - (100 * Cardinality(Tokens(q.of) \cap Tokens(v.of)))
                  \div Cardinality(Tokens(q.of) \cup Tokens(v.of))

\* The positions of coll in ks by ascending distance from q (insertion order
\* among equals).
RECURSIVE Ranked(_, _, _)
Ranked(coll, ks, q) ==
    IF ks = {} THEN <<>>
    ELSE LET best == CHOOSE k \in ks : \A j \in ks :
                        \/ Distance(q, coll[k].embedding) < Distance(q, coll[j].embedding)
                        \/ /\ Distance(q, coll[k].embedding) = Distance(q, coll[j].embedding)
                           /\ k <= j
         IN  <<best>> \o Ranked(coll, ks \ {best}, q)

\* A query that ranks every record, keeps the n nearest and filters those.
QueryPostFilter(coll, q, n, where) ==
    LET top == Take(Ranked(coll, DOMAIN coll, q), n)
        order == SelectSeq(top,
                    LAMBDA k : \/ where = None
                               \/ /\ "categories" \in DOMAIN coll[k].metadata
                                  /\ coll[k].metadata.categories = where.eq)
    IN  [metadatas |-> [i \in DOMAIN order |-> coll[order[i]].metadata],
         distances |-> [i \in DOMAIN order |->
                           Distance(q, coll[order[i]].embedding)]]

\* collection.query(query_embeddings=[q], n_results=n, where=...): where is
\* None or an equality on the "categories" metadata, applied in the search.
Query(coll, q, n, where) ==
    LET eligible == {k \in DOMAIN coll :
                        \/ where = None
                        \/ /\ "categories" \in DOMAIN coll[k].metadata
                           /\ coll[k].metadata.categories = where.eq}
        order == Take(Ranked(coll, eligible, q), n)
    IN  [metadatas |-> [i \in DOMAIN order |-> coll[order[i]].metadata],
         distances |-> [i \in DOMAIN order |->
                           Distance(q, coll[order[i]].embedding)]]

\* search_articles(query, limit, category_filter); a category_filter of ""
\* or None is no filter.
SearchArticles(coll, query, limit, category_filter) ==
    Query(coll, GenerateEmbedding(query), limit,
          IF category_filter # <<>> THEN [eq |-> category_filter] ELSE None)

----------------------------------------------------------------------------
(* Specification SpecSearch: search_articles on a collection that          *)
(* store_in_chromadb has filled.                                           *)

Categorized(art, category) ==
    SetKey(art, "categories", [category |-> category, confidence |-> 90])

\* Two sports articles, a tech article, and an article that was never
\* categorized (stored as "general").
SearchableArticles ==
    { Categorized(Art(<<"goal">>, <<"match">>, <<"u1">>), <<"sports">>),
      Categorized(Art(<<"cup">>, <<"chip">>, <<"u2">>), <<"sports">>),
      Categorized(Art(<<"chip">>, <<>>, <<"u3">>), <<"tech">>),
      Art(<<"goal">>, <<>>, <<"u4">>) }

SearchQueries == { <<"chip">>, <<"goal">>, <<>> }

SearchFilters == { <<"sports">>, <<"tech">>, General, <<>> }

InitSearch ==
    /\ pc = "search"
    /\ \E articles \in SeqsUpTo(SearchableArticles, MaxSearchRecords) :
          collection = StoreInChromadb(<<>>, articles, TRUE).collection
    /\ inp = None
    /\ out = None
    /\ site = 0
    /\ all_articles = <<>>
    /\ status = <<>>
    /\ logs = <<>>
    /\ outfile = None

SearchApply ==
    /\ pc = "search"
    /\ \E query \in SearchQueries, limit \in 1..MaxLimit,
          category_filter \in SearchFilters :
          /\ inp' = [query |-> query, limit |-> limit,
                     category_filter |-> category_filter]
          /\ out' = SearchArticles(collection, query, limit, category_filter)
    /\ pc' = "searched"
    /\ UNCHANGED <<collection, site, all_articles, status, logs, outfile>>

NextSearch == SearchApply

SpecSearch == InitSearch /\ [][NextSearch]_vars

\* The records of the collection whose stored category is the filter.
Eligible == {k \in DOMAIN collection :
                collection[k].metadata.categories = inp.category_filter}

QueryDistance(k) ==
    Distance(GenerateEmbedding(inp.query), collection[k].embedding)

\* C13: search_articles with a category filter returns only records whose
\* stored category is the filter, by ascending distance, as many as the
\* smaller of limit and the number of eligible records, and they are the
\* nearest eligible records: the filter is part of the store query.
FilterAppliedInQuery ==
    (pc = "searched" /\ inp.category_filter # <<>>) =>
        /\ Len(out.metadatas) = IF inp.limit < Cardinality(Eligible)
                                THEN inp.limit ELSE Cardinality(Eligible)
        /\ Len(out.distances) = Len(out.metadatas)
        /\ \A i \in DOMAIN out.metadatas :
              /\ out.metadatas[i].categories = inp.category_filter
              /\ \E k \in Eligible :
                    /\ collection[k].metadata = out.metadatas[i]
                    /\ QueryDistance(k) = out.distances[i]
        /\ \A i, j \in DOMAIN out.metadatas :
              /\ i < j => out.distances[i] <= out.distances[j]
              /\ i # j => out.metadatas[i] # out.metadatas[j]
        /\ \A k \in Eligible :
              (\A i \in DOMAIN out.metadatas :
                   out.metadatas[i] # collection[k].metadata)
                 => \A i \in DOMAIN out.distances :
                       out.distances[i] <= QueryDistance(k)

FilterWitness ==
    /\ pc = "searched"
    /\ inp.category_filter = <<"sports">>
    /\ Len(out.metadatas) = inp.limit
    /\ out.metadatas[1].categories = <<"sports">>
    /\ \E k \in DOMAIN collection :
          /\ collection[k].metadata.categories = <<"tech">>
          /\ QueryDistance(k) < out.distances[1]

----------------------------------------------------------------------------
(* Specification Spec: one run of main().                                  *)

SiteNames == <<"bbc_live", "site2", "site3", "site4">>

\* self.websites, in order: every source has the limit of the configured one.
Website(i) == [name |-> SiteNames[i], url |-> <<"https://", SiteNames[i]>>,
               limit |-> 12]

max_articles_per_site == 12

Min(a, b) == IF a < b THEN a ELSE b

\* The containers a page of the run is made of: a headline of two words with
\* a description, a one-word headline alone, and a container without headline.
RunContainers ==
    { [raises |-> FALSE, headline |-> <<"w", " ", "w">>,
       description |-> <<"w">>, href |-> <<"a">>],
      [raises |-> FALSE, headline |-> <<"w">>, href |-> <<"b">>],
      [raises |-> FALSE, description |-> <<"w">>, href |-> <<"x">>] }

Fetches ==
    {[raises |-> TRUE, containers |-> <<>>]}
        \cup [raises : {FALSE}, containers : SeqsUpTo(RunContainers, MaxContainers)]

\* What the collection holds when the process starts.
InitialCollections ==
    { <<>>,
      << [id |-> <<"id1">>, embedding |-> Encode(<<"sports">>),
          document |-> <<"sports">>,
          metadata |-> [headline |-> <<"sports">>, source |-> <<"old">>,
                        categories |-> <<"sports", ",", "tech">>]] >> }

\* Per source: how its iteration ended, how many items scrape_website gave,
\* what became of the upsert call, the articles added to the result, and the
\* calls made for the source so far, in the order made.
Pending == [state |-> "pending", yielded |-> 0, upsert |-> "none",
            processed |-> <<>>, events |-> <<>>]

Ev(kind, k) == [kind |-> kind, item |-> k]

\* scrape_website: the page is fetched, then its items are extracted one by
\* one.
ScrapeEvents(fetch, items) ==
    <<Ev("fetch", 0)>> \o [k \in DOMAIN items |-> Ev("extract", k)]

\* process_articles_batch: one categorize_article call per article, in order.
CategorizeEvents(articles) == [k \in DOMAIN articles |-> Ev("categorize", k)]

\* store_in_chromadb with the upsert call inside the loop.
StoreEventsUpsertEach(articles) ==
    IF articles = <<>> THEN <<>>
    ELSE [k \in 1..(2 * Len(articles)) |->
             IF k % 2 = 1 THEN Ev("embed", (k + 1) \div 2) ELSE Ev("upsert", 0)]

\* store_in_chromadb: one generate_embedding call per article in the loop,
\* then the upsert call.
StoreEvents(articles) ==
    IF articles = <<>> THEN <<>>
    ELSE [k \in DOMAIN articles |-> Ev("embed", k)] \o <<Ev("upsert", 0)>>

Init ==
    /\ pc = "start"
    /\ collection \in InitialCollections
    /\ inp = None
    /\ out = None
    /\ site = 0
    /\ all_articles = <<>>
    /\ status = [i \in 1..NumSites |-> Pending]
    /\ logs = <<>>
    /\ outfile = None

Log(level, what, i) == [level |-> level, what |-> what, site |-> i]

\* EfficientNewsScraper(): migrate_categories runs in the constructor and
\* nothing catches what it raises.
Construct ==
    /\ pc = "start"
    /\ \E ok \in BOOLEAN :
          LET r == MigrateCategories(collection, ok)
          IN  /\ collection' = r.collection
              /\ pc' = IF r.raised THEN "crashed" ELSE "scrape"
              /\ site' = IF r.raised THEN site ELSE 1
    /\ UNCHANGED <<inp, out, all_articles, status, logs, outfile>>

\* scrape_all_websites, lines 279-285: scrape_website for the source at hand.
Scrape ==
    /\ pc = "scrape"
    /\ site <= NumSites
    /\ \E fetch \in Fetches :
          LET w == Website(site)
              r == ScrapeWebsite(fetch, w.url,
                                 Min(w.limit, max_articles_per_site), Now)
          IN  /\ logs' = logs \o [k \in DOMAIN r.log |->
                                     Log(r.log[k].level, r.log[k].what, site)]
              /\ IF r.items = <<>>
                 THEN /\ pc' = "sleep"
                      /\ inp' = None
                      /\ status' = [status EXCEPT
                                       ![site].state =
                                          IF fetch.raises THEN "fetch_failed"
                                          ELSE "no_items",
                                       ![site].events =
                                          ScrapeEvents(fetch, r.items)]
                 ELSE /\ pc' = "categorize"
                      /\ inp' = [articles |-> r.items]
                      /\ status' = [status EXCEPT
                                       ![site].yielded = Len(r.items),
                                       ![site].events =
                                          ScrapeEvents(fetch, r.items)]
    /\ UNCHANGED <<collection, out, site, all_articles, outfile>>

RunOutcomes == {ClsRaise, ClsOk}

\* line 286: process_articles_batch.
Categorize ==
    /\ pc = "categorize"
    /\ \E outcomes \in [DOMAIN inp.articles -> RunOutcomes] :
          /\ \A k \in DOMAIN outcomes :
                ShortCircuit(ArticleText(inp.articles[k])) => outcomes[k] = ClsRaise
          /\ inp' = [processed |->
                        ProcessArticlesBatch(inp.articles, outcomes)]
    /\ status' = [status EXCEPT
                     ![site].events = @ \o CategorizeEvents(inp.articles)]
    /\ pc' = "store"
    /\ UNCHANGED <<collection, out, site, all_articles, logs, outfile>>

\* The store call with what it raises caught and logged on the spot, the
\* body going on with line 288.
StoreThenExtend ==
    /\ pc = "store"
    /\ \E ok \in BOOLEAN :
          LET r == StoreInChromadb(collection, inp.processed, ok)
          IN  /\ collection' = r.collection
              /\ pc' = "extend"
              /\ status' = [status EXCEPT
                               ![site].upsert = IF ok THEN "ok" ELSE "failed",
                               ![site].events = @ \o StoreEvents(inp.processed)]
    /\ UNCHANGED <<inp, out, site, all_articles, logs, outfile>>

\* line 287: store_in_chromadb; what it raises goes to the except clause of
\* the loop body.
Store ==
    /\ pc = "store"
    /\ \E ok \in BOOLEAN :
          LET r == StoreInChromadb(collection, inp.processed, ok)
          IN  /\ collection' = r.collection
              /\ pc' = IF r.raised THEN "except" ELSE "extend"
              /\ status' = [status EXCEPT
                               ![site].upsert = IF ok THEN "ok" ELSE "failed",
                               ![site].events = @ \o StoreEvents(inp.processed)]
    /\ UNCHANGED <<inp, out, site, all_articles, logs, outfile>>

\* lines 288-289: all_articles.extend(processed_articles).
Extend ==
    /\ pc = "extend"
    /\ all_articles' = all_articles \o inp.processed
    /\ status' = [status EXCEPT ![site].state = "stored",
                                ![site].processed = inp.processed]
    /\ pc' = "sleep"
    /\ UNCHANGED <<collection, inp, out, site, logs, outfile>>

\* line 291 and the next iteration.
Sleep ==
    /\ pc = "sleep"
    /\ site' = site + 1
    /\ inp' = None
    /\ pc' = "scrape"
    /\ UNCHANGED <<collection, out, all_articles, status, logs, outfile>>

\* The except clause with the loop left instead of continued.
SiteExceptBreak ==
    /\ pc = "except"
    /\ logs' = Append(logs, Log("error", "failed to process", site))
    /\ status' = [status EXCEPT ![site].state = "store_failed"]
    /\ site' = NumSites + 1
    /\ inp' = None
    /\ pc' = "scrape"
    /\ UNCHANGED <<collection, out, all_articles, outfile>>

\* lines 293-295: except Exception: logger.error(...); continue.
SiteExcept ==
    /\ pc = "except"
    /\ logs' = Append(logs, Log("error", "failed to process", site))
    /\ status' = [status EXCEPT ![site].state = "store_failed"]
    /\ site' = site + 1
    /\ inp' = None
    /\ pc' = "scrape"
    /\ UNCHANGED <<collection, out, all_articles, outfile>>

\* line 297: return all_articles.
Return ==
    /\ pc = "scrape"
    /\ site > NumSites
    /\ pc' = "returned"
    /\ UNCHANGED <<collection, inp, out, site, all_articles, status, logs, outfile>>

\* main, lines 330-341: the warning of an empty result, and the inspection
\* query.
Report ==
    /\ pc = "returned"
    /\ logs' = IF all_articles = <<>>
               THEN Append(logs, Log("warning", "no articles were scraped", 0))
               ELSE logs
    /\ out' = SearchArticles(collection, <<"sports">>, 5, <<"sports">>)
    /\ pc' = "write"
    /\ UNCHANGED <<collection, inp, site, all_articles, status, outfile>>

\* The file written only when there is an article to write.
WriteOutputIfAny ==
    /\ pc = "write"
    /\ outfile' = IF all_articles = <<>> THEN outfile
                  ELSE [articles |-> all_articles]
    /\ pc' = "done"
    /\ UNCHANGED <<collection, inp, out, site, all_articles, status, logs>>

\* main, lines 343-346: json.dump(articles, f).
WriteOutput ==
    /\ pc = "write"
    /\ outfile' = [articles |-> all_articles]
    /\ pc' = "done"
    /\ UNCHANGED <<collection, inp, out, site, all_articles, status, logs>>

Next ==
    \/ Construct
    \/ Scrape
    \/ Categorize
    \/ Store
    \/ Extend
    \/ Sleep
    \/ SiteExcept
    \/ Return
    \/ Report
    \/ WriteOutput

Spec == Init /\ [][Next]_vars
Returned == pc \in {"returned", "write", "done"}

\* The articles of the sources whose iteration ended without an exception, in
\* source order, from source i on.
RECURSIVE ArticlesOfSucceeded(_)
ArticlesOfSucceeded(i) ==
    IF i > NumSites THEN <<>>
    ELSE (IF status[i].state = "stored" THEN status[i].processed ELSE <<>>)
            \o ArticlesOfSucceeded(i + 1)

\* C2: no source failure makes the run raise; when scrape_all_websites
\* returns, every source has been processed, whatever happened to the
\* sources before it, and the result is exactly the processed articles of
\* the sources that succeeded, each with as many articles as its page gave.
PartialFailureIsolation ==
    /\ pc = "crashed" => site = 0
    /\ Returned =>
          /\ \A i \in 1..NumSites : status[i].state # "pending"
          /\ all_articles = ArticlesOfSucceeded(1)
          /\ \A i \in 1..NumSites :
                status[i].state = "stored"
                   => Len(status[i].processed) = status[i].yielded

PartialFailureWitness ==
    /\ pc = "done"
    /\ status[1].state = "fetch_failed"
    /\ status[2].state = "stored"
    /\ status[2].yielded = 2
    /\ Len(all_articles) = 2

NoArticlesWarning == Log("warning", "no articles were scraped", 0)

Logged(entry) == \E k \in DOMAIN logs : logs[k] = entry

\* C3 as claimed: when a source yields at least one valid article, the run
\* ends with a non-empty result and the output file written; otherwise with
\* a warning, an empty result and no exception.
NonEmptyWhenASourceYields ==
    /\ pc = "crashed" => site = 0
    /\ pc = "done" =>
          IF \E i \in 1..NumSites : status[i].yielded >= 1
          THEN all_articles # <<>> /\ outfile = [articles |-> all_articles]
          ELSE all_articles = <<>> /\ Logged(NoArticlesWarning)

\* C3 as amended: when a source yields at least one valid article and its
\* store_in_chromadb call succeeds, the run ends with a non-empty result and
\* the output file written; when no source does, it ends with the warning,
\* an empty result and the (empty) output file.  No step of the run after
\* construction raises.
NonEmptyWhenASourceIsStored ==
    /\ pc = "crashed" => site = 0
    /\ pc = "done" =>
          /\ outfile = [articles |-> all_articles]
          /\ IF \E i \in 1..NumSites :
                   status[i].yielded >= 1 /\ status[i].upsert = "ok"
             THEN all_articles # <<>> /\ ~Logged(NoArticlesWarning)
             ELSE all_articles = <<>> /\ Logged(NoArticlesWarning)

NonEmptyWitness ==
    /\ pc = "done"
    /\ status[1].state = "store_failed"
    /\ status[2].state = "stored"
    /\ all_articles # <<>>
    /\ outfile = [articles |-> all_articles]

\* C6 as claimed: a failing upsert propagates out of store_in_chromadb, and
\* the run does not catch it and return normally.
StoreFailureEndsTheRun ==
    \A i \in 1..NumSites :
        status[i].upsert = "failed" =>
            /\ (i = site /\ pc = "except") \/ status[i].state = "store_failed"
            /\ ~Returned

\* C6 as amended: a failing upsert propagates out of store_in_chromadb to
\* scrape_all_websites, whose except clause catches and logs it as an error;
\* the collection is left as it was, none of the source's articles goes into
\* the result, and the run carries on with the next source and returns.
StoreFailureCaughtAtSourceBoundary ==
    /\ pc = "crashed" => site = 0
    /\ \A i \in 1..NumSites :
          status[i].upsert = "failed" =>
              /\ (i = site /\ pc = "except") \/ status[i].state = "store_failed"
              /\ status[i].state = "store_failed" =>
                    /\ Logged(Log("error", "failed to process", i))
                    /\ site > i
              /\ status[i].processed = <<>>
    /\ Len(all_articles) = Len(ArticlesOfSucceeded(1))
    /\ Returned => \A i \in 1..NumSites : status[i].state # "pending"

StoreFailureWitness ==
    /\ pc = "done"
    /\ status[1].upsert = "failed"
    /\ status[1].state = "store_failed"
    /\ status[2].state = "stored"


\* The a-th call made for a source that yields n items: the fetch, the
\* extraction of each item, the categorization of each item, the embedding of
\* each item, the upsert.
ExpectedCall(n, a) ==
    IF a = 1 THEN Ev("fetch", 0)
    ELSE IF a <= 1 + n THEN Ev("extract", a - 1)
    ELSE IF a <= 1 + 2 * n THEN Ev("categorize", a - 1 - n)
    ELSE IF a <= 1 + 3 * n THEN Ev("embed", a - 1 - 2 * n)
    ELSE Ev("upsert", 0)

\* C17: sources are processed one at a time, in order: while a source is at
\* hand every source before it has made all its calls and no source after it
\* has made one.  The calls of a source come phase by phase - the fetch, the
\* extraction of every item, then the categorization of every item, then the
\* embedding of every item, then the one upsert - and a source that yields
\* items and got as far as storing has made exactly one upsert call.
PhaseOrdering ==
    \A i \in 1..NumSites :
        LET ev == status[i].events
            n == status[i].yielded
        IN  /\ (i > site \/ pc \in {"start", "crashed"}) => ev = <<>>
            /\ \A a \in DOMAIN ev : ev[a] = ExpectedCall(n, a)
            /\ Len(ev) \in {0, 1 + n, 1 + 2 * n, 2 + 3 * n}
            /\ i < site => Len(ev) = IF n = 0 THEN 1 ELSE 2 + 3 * n
            /\ status[i].upsert # "none" <=> (n >= 1 /\ Len(ev) = 2 + 3 * n)

PhaseOrderingWitness ==
    /\ pc = "scrape"
    /\ site = 2
    /\ status[1].yielded = 2
    /\ status[1].events =
          << Ev("fetch", 0), Ev("extract", 1), Ev("extract", 2),
             Ev("categorize", 1), Ev("categorize", 2),
             Ev("embed", 1), Ev("embed", 2), Ev("upsert", 0) >>
    /\ status[2].events = <<>>

\* C18: at every point of a run every article of the result comes from a
\* source whose upsert call completed, and the collection holds a record
\* under the article's id; no article of a source whose upsert raised is in
\* the result.
ResultImpliesStored ==
    /\ \A k \in DOMAIN all_articles :
          /\ \E i \in 1..NumSites :
                /\ all_articles[k].source = Website(i).url
                /\ status[i].upsert = "ok"
                /\ \E j \in DOMAIN status[i].processed :
                      status[i].processed[j] = all_articles[k]
          /\ HasId(collection,
                   GenerateArticleId(all_articles[k].url,
                                     all_articles[k].headline))
    /\ \A i \in 1..NumSites :
          status[i].upsert = "failed" =>
              \A k \in DOMAIN all_articles :
                 all_articles[k].source # Website(i).url

ResultStoredWitness ==
    /\ pc = "returned"
    /\ status[1].upsert = "failed"
    /\ status[1].yielded = 2
    /\ status[2].upsert = "ok"
    /\ status[2].yielded = 1
    /\ Len(all_articles) = 1
    /\ all_articles[1].source = Website(2).url

=============================================================================
